---- MODULE Spec2Model ----
(***************************************************************************)
(* Model of the BMW predictive-maintenance backend:                        *)
(*   - AlertService (services/alert_service.py): the per-recipient         *)
(*     rate-limited SMS gate, one process per request thread;              *)
(*   - PredictionService (services/prediction_service.py): the decision    *)
(*     rules applied to the signals of the two model collaborators.        *)
(* Time is counted in whole clock units (time.time() read as an integer).  *)
(* Probabilities and anomaly scores are fixed-point numbers in units of    *)
(* 1/Scale, remaining useful life in units of 1/RulScale cycles.           *)
(***************************************************************************)
EXTENDS Integers, Sequences, FiniteSets, TLC

\* ------------------------------------------------------------------ bounds
\* Largest clock value of the model; Tick stops there.
MaxTime == 7
\* rate_limit_seconds is drawn from 1..MaxRateLimit at construction.
MaxRateLimit == 3

\* Recipient phone numbers and request threads of the model.
Recipients == {"A", "B"}
Threads == {"t1", "t2"}

\* ------------------------------------------------------- AlertService state
VARIABLES
    now,                 \* the wall clock read by time.time()
    rate_limit_seconds,  \* self.rate_limit_seconds
    client,              \* self.client is not None (Twilio configured)
    last_alert_time,     \* self.last_alert_time: dict phone -> timestamp
    pc,                  \* per thread: position inside send_alert
    to_phone,            \* per thread: the to_phone argument
    outcome,             \* per thread: what messages.create did in this call
    message,             \* per thread: sid of the message create returned
    result,              \* per thread: the dict send_alert returns
    sent                 \* history: per recipient, the clock value at which
                         \* the provider last accepted a message for it
                         \* (a set: empty while it accepted none)

\* ---------------------------------------------------- PredictionService state
VARIABLES
    lstm_model,          \* self.lstm_model is not None
    autoencoder_model,   \* self.autoencoder_model is not None
    presult              \* what the last predict() call produced

gateVars == <<now, rate_limit_seconds, client, last_alert_time, pc, to_phone,
              outcome, message, result, sent>>
predVars == <<lstm_model, autoencoder_model, presult>>

\* ------------------------------------------------------ LocationService state
VARIABLES
    loc_client,          \* self.client is not None (Google Maps configured)
    lresult              \* what the last get_nearby_service_centers() call
                         \* returned, with the arguments and the provider's
                         \* answer it was computed from

locVars == <<loc_client, lresult>>

\* ------------------------------------------------------- message composition
VARIABLES
    mresult              \* what the last _compose_message() call returned,
                         \* with the arguments it was given

msgVars == <<mresult>>
vars == <<gateVars, predVars, locVars, msgVars>>

\* ------------------------------------------------------------ AlertService
NoPhone == "-"
NoSid == << >>

\* dict.get(key, default)
Get(d, k, default) == IF k \in DOMAIN d THEN d[k] ELSE default

\* The identifier the provider assigns to a message it accepted.
ProviderSid(r, t) == <<"SM", r, t>>

NoResult == [kind |-> "none", success |-> FALSE, sid |-> NoSid, retry |-> 0]
NotConfiguredResult ==
    [kind |-> "not_configured", success |-> FALSE, sid |-> NoSid, retry |-> 0]
\* int(x / d): the quotient truncated toward zero.
TruncDiv(x, d) == IF x >= 0 THEN x \div d ELSE -((-x) \div d)

SecondsPerMinute == 60

\* retry is time_remaining as computed; minutes is what the message prints,
\* int(time_remaining/60).
RateLimitedResult(time_remaining) ==
    [kind |-> "rate_limited", success |-> FALSE, sid |-> NoSid,
     retry |-> time_remaining,
     minutes |-> TruncDiv(time_remaining, SecondsPerMinute)]
SentResult(msgSid) ==
    [kind |-> "sent", success |-> TRUE, sid |-> msgSid, retry |-> 0]
DeliveryErrorResult ==
    [kind |-> "delivery_error", success |-> FALSE, sid |-> NoSid, retry |-> 0]

InitGate ==
    /\ now = 0
    /\ rate_limit_seconds \in 1..MaxRateLimit
    /\ client \in BOOLEAN
    /\ last_alert_time = << >>
    /\ pc = [th \in Threads |-> "idle"]
    /\ to_phone = [th \in Threads |-> NoPhone]
    /\ outcome = [th \in Threads |-> "none"]
    /\ message = [th \in Threads |-> NoSid]
    /\ result = [th \in Threads |-> NoResult]
    /\ sent = [r \in Recipients |-> {}]

\* _can_send_alert: elapsed time since the last recorded send, 0 when none.
CanSendAlertAlways(phone_number) == TRUE
CanSendAlertInverted(phone_number) ==
    now - Get(last_alert_time, phone_number, 0) <= rate_limit_seconds
CanSendAlertLate(phone_number) ==
    now - Get(last_alert_time, phone_number, 0) > rate_limit_seconds
CanSendAlert(phone_number) ==
    now - Get(last_alert_time, phone_number, 0) >= rate_limit_seconds

\* send_alert, entry: the client test, then the thread is at the rate check.
EnterSkipsClientTest(th, r) ==
    /\ pc[th] = "idle"
    /\ to_phone' = [to_phone EXCEPT ![th] = r]
    /\ outcome' = [outcome EXCEPT ![th] = "none"]
    /\ pc' = [pc EXCEPT ![th] = "check"]
    /\ result' = [result EXCEPT ![th] = NoResult]
    /\ UNCHANGED <<now, rate_limit_seconds, client, last_alert_time, message,
                   sent>>
Enter(th, r) ==
    /\ pc[th] = "idle"
    /\ to_phone' = [to_phone EXCEPT ![th] = r]
    /\ outcome' = [outcome EXCEPT ![th] = "none"]
    /\ IF ~client
         THEN /\ pc' = [pc EXCEPT ![th] = "done"]
              /\ result' = [result EXCEPT ![th] = NotConfiguredResult]
         ELSE /\ pc' = [pc EXCEPT ![th] = "check"]
              /\ result' = [result EXCEPT ![th] = NoResult]
    /\ UNCHANGED <<now, rate_limit_seconds, client, last_alert_time, message,
                   sent>>

\* A request thread enters send_alert while another may still be inside it.
Call(th, r) == Enter(th, r)

\* The same, with requests served one at a time.
SeqCall(th, r) ==
    /\ \A o \in Threads : pc[o] = "idle"
    /\ Enter(th, r)

\* send_alert, the rate-limit test.
CheckRate(th) ==
    /\ pc[th] = "check"
    /\ pc' = [pc EXCEPT ![th] =
                 IF CanSendAlert(to_phone[th]) THEN "deliver" ELSE "limited"]
    /\ UNCHANGED <<now, rate_limit_seconds, client, last_alert_time, to_phone,
                   outcome, message, result, sent>>

\* send_alert, the rate-limited return: the clock is read again.
RejectRateLimitedRestarts(th) ==
    /\ pc[th] = "limited"
    /\ LET last_sent == Get(last_alert_time, to_phone[th], 0)
           time_remaining == rate_limit_seconds - (now - last_sent)
       IN  result' = [result EXCEPT ![th] = RateLimitedResult(time_remaining)]
    /\ pc' = [pc EXCEPT ![th] = "done"]
    /\ last_alert_time' = (to_phone[th] :> now) @@ last_alert_time
    /\ UNCHANGED <<now, rate_limit_seconds, client, to_phone, outcome, message,
                   sent>>
RejectRateLimited(th) ==
    /\ pc[th] = "limited"
    /\ LET last_sent == Get(last_alert_time, to_phone[th], 0)
           time_remaining == rate_limit_seconds - (now - last_sent)
       IN  result' = [result EXCEPT ![th] = RateLimitedResult(time_remaining)]
    /\ pc' = [pc EXCEPT ![th] = "done"]
    /\ UNCHANGED <<now, rate_limit_seconds, client, last_alert_time, to_phone,
                   outcome, message, sent>>

\* send_alert, the except branch: what a raising messages.create leaves.
DeliveryFailedRecords(th) ==
    /\ last_alert_time' = (to_phone[th] :> now) @@ last_alert_time
    /\ result' = [result EXCEPT ![th] = DeliveryErrorResult]
    /\ pc' = [pc EXCEPT ![th] = "done"]
DeliveryFailed(th) ==
    /\ last_alert_time' = last_alert_time
    /\ result' = [result EXCEPT ![th] = DeliveryErrorResult]
    /\ pc' = [pc EXCEPT ![th] = "done"]

\* send_alert, the message is composed and handed to messages.create, which
\* returns a message or raises.
Deliver(th) ==
    /\ pc[th] = "deliver"
    /\ \E ok \in BOOLEAN :
         IF ok
           THEN /\ outcome' = [outcome EXCEPT ![th] = "ok"]
                /\ sent' = [sent EXCEPT ![to_phone[th]] = {now}]
                /\ message' = [message EXCEPT
                                 ![th] = ProviderSid(to_phone[th], now)]
                /\ result' = result
                /\ pc' = [pc EXCEPT ![th] = "record"]
                /\ last_alert_time' = last_alert_time
           ELSE /\ outcome' = [outcome EXCEPT ![th] = "raised"]
                /\ sent' = sent
                /\ message' = message
                /\ DeliveryFailed(th)
    /\ UNCHANGED <<now, rate_limit_seconds, client, to_phone>>

\* send_alert, after messages.create returned: the timestamp is written and
\* the success dict is built from message.sid.
SuccessResultNoSid(th) == SentResult(NoSid)
SuccessResult(th) == SentResult(message[th])

RecordForAll(th) ==
    /\ pc[th] = "record"
    /\ last_alert_time' = [r \in Recipients |-> now]
    /\ result' = [result EXCEPT ![th] = SuccessResult(th)]
    /\ pc' = [pc EXCEPT ![th] = "done"]
    /\ UNCHANGED <<now, rate_limit_seconds, client, to_phone, outcome, message,
                   sent>>
Record(th) ==
    /\ pc[th] = "record"
    /\ last_alert_time' = (to_phone[th] :> now) @@ last_alert_time
    /\ result' = [result EXCEPT ![th] = SuccessResult(th)]
    /\ pc' = [pc EXCEPT ![th] = "done"]
    /\ UNCHANGED <<now, rate_limit_seconds, client, to_phone, outcome, message,
                   sent>>

\* send_alert has returned; the thread is free for the next request.
Return(th) ==
    /\ pc[th] = "done"
    /\ pc' = [pc EXCEPT ![th] = "idle"]
    /\ to_phone' = [to_phone EXCEPT ![th] = NoPhone]
    /\ outcome' = [outcome EXCEPT ![th] = "none"]
    /\ message' = [message EXCEPT ![th] = NoSid]
    /\ result' = [result EXCEPT ![th] = NoResult]
    /\ UNCHANGED <<now, rate_limit_seconds, client, last_alert_time, sent>>

\* The wall clock advances.
Tick ==
    /\ now < MaxTime
    /\ now' = now + 1
    /\ UNCHANGED <<rate_limit_seconds, client, last_alert_time, pc, to_phone,
                   outcome, message, result, sent>>

GateStep(th) ==
    \/ CheckRate(th)
    \/ RejectRateLimited(th)
    \/ Deliver(th)
    \/ Record(th)
    \/ Return(th)

InitPred ==
    /\ lstm_model = FALSE
    /\ autoencoder_model = FALSE
    /\ presult = [status |-> "none"]

InitLoc ==
    /\ loc_client \in BOOLEAN
    /\ lresult = [status |-> "none"]

\* The three services as app.py constructs them, under every configuration.
InitMsg == mresult = [status |-> "none"]

InitAll == InitGate /\ InitPred /\ InitLoc /\ InitMsg

\* The alert service under each of its configurations, the Maps key set.
Init == InitAll /\ loc_client

\* Requests served one at a time.
Next ==
    \/ \E th \in Threads, r \in Recipients : SeqCall(th, r) /\ UNCHANGED <<predVars, locVars, msgVars>>
    \/ \E th \in Threads : GateStep(th) /\ UNCHANGED <<predVars, locVars, msgVars>>
    \/ Tick /\ UNCHANGED <<predVars, locVars, msgVars>>

Spec == Init /\ [][Next]_vars

\* Requests served by concurrent threads (Flask's threaded server).
NextConc ==
    \/ \E th \in Threads, r \in Recipients : Call(th, r) /\ UNCHANGED <<predVars, locVars, msgVars>>
    \/ \E th \in Threads : GateStep(th) /\ UNCHANGED <<predVars, locVars, msgVars>>
    \/ Tick /\ UNCHANGED <<predVars, locVars, msgVars>>

SpecConc == Init /\ [][NextConc]_vars

\* -------------------------------------------------------- PredictionService
\* Fixed-point units: failure probability and anomaly score in 1/100000,
\* remaining useful life in 1/100 cycle.  The thresholds and fallbacks below
\* are the literals of the source in these units.
FailureImmediate == 70000      \* failure_prob >= 0.7
RulImmediate == 3000           \* rul <= 30
FailureSoon == 40000           \* failure_prob >= 0.4
RulSoon == 6000                \* rul <= 60
AnomalyAlert == 50000          \* anomaly_score > 0.5
FallbackFailureProb == 30000   \* failure_prob = 0.3
FallbackRul == 10000           \* rul = 100.0
FallbackAnomaly == 1000        \* anomaly_score = 0.01
NumFeatures == 12              \* len(features) != 12

\* Signals the two model collaborators may return, around every threshold.
FailureProbs == {0, 30000, 39996, 40000, 69996, 70000, 70004, 100000}
Ruls == {-100, 2996, 3000, 3004, 6000, 6004, 10000, 20000}
Anomalies == {0, 1000, 49996, 50000, 50004, 60000}
FeatureLengths == {11, 12, 13}

LstmOutcomes ==
    [kind : {"ok"}, failure_prob : FailureProbs, rul : Ruls]
        \cup {[kind |-> "malformed"], [kind |-> "raise"]}
AutoencoderOutcomes ==
    [kind : {"ok"}, anomaly_score : Anomalies] \cup {[kind |-> "raise"]}

\* round(x, n) where x is held with one more decimal digit than n: round to
\* the nearest multiple of ten units, halves to the even neighbour.
Round10(x) ==
    LET q == x \div 10
        r == x % 10
    IN  IF r < 5 THEN q
        ELSE IF r > 5 THEN q + 1
        ELSE IF q % 2 = 0 THEN q ELSE q + 1

\* _get_maintenance_decision (the messages without their leading emoji)
MaintenanceImmediate ==
    [level |-> "immediate",
     message |-> "Immediate Maintenance Required",
     description |-> "Critical condition detected. Schedule service immediately.",
     color |-> "red"]
MaintenanceSoon ==
    [level |-> "soon",
     message |-> "Schedule Maintenance Soon",
     description |-> "Degradation detected. Plan maintenance within the next week.",
     color |-> "yellow"]
MaintenanceNormal ==
    [level |-> "normal",
     message |-> "Vehicle Operating Normally",
     description |-> "All systems functioning within normal parameters.",
     color |-> "green"]

GetMaintenanceDecisionStrict(failure_prob, rul) ==
    IF failure_prob > FailureImmediate \/ rul < RulImmediate
      THEN MaintenanceImmediate
    ELSE IF failure_prob > FailureSoon \/ rul < RulSoon
      THEN MaintenanceSoon
    ELSE MaintenanceNormal
GetMaintenanceDecision(failure_prob, rul) ==
    IF failure_prob >= FailureImmediate \/ rul <= RulImmediate
      THEN MaintenanceImmediate
    ELSE IF failure_prob >= FailureSoon \/ rul <= RulSoon
      THEN MaintenanceSoon
    ELSE MaintenanceNormal

\* _should_trigger_alert
ShouldTriggerAlertNoAnomaly(failure_prob, rul, anomaly_score) ==
    \/ failure_prob >= FailureImmediate
    \/ rul <= RulImmediate
ShouldTriggerAlertInclusive(failure_prob, rul, anomaly_score) ==
    \/ failure_prob >= FailureImmediate
    \/ rul <= RulImmediate
    \/ anomaly_score >= AnomalyAlert
ShouldTriggerAlert(failure_prob, rul, anomaly_score) ==
    \/ failure_prob >= FailureImmediate
    \/ rul <= RulImmediate
    \/ anomaly_score > AnomalyAlert

\* _get_alert_severity
GetAlertSeverityStrict(failure_prob, rul) ==
    IF failure_prob > FailureImmediate \/ rul < RulImmediate THEN "critical"
    ELSE IF failure_prob > FailureSoon \/ rul < RulSoon THEN "warning"
    ELSE "normal"
GetAlertSeverity(failure_prob, rul) ==
    IF failure_prob >= FailureImmediate \/ rul <= RulImmediate THEN "critical"
    ELSE IF failure_prob >= FailureSoon \/ rul <= RulSoon THEN "warning"
    ELSE "normal"

\* load_models: each model is loaded or, when loading raises, left as it was;
\* nothing is loaded when Keras could not be imported.
LoadModels ==
    /\ \E keras \in BOOLEAN, l \in BOOLEAN, a \in BOOLEAN :
         /\ lstm_model' = IF keras /\ l THEN TRUE ELSE lstm_model
         /\ autoencoder_model' = IF keras /\ a THEN TRUE ELSE autoencoder_model
    /\ UNCHANGED presult

\* predict: the signals it goes on with after the two inference calls.
LstmSignalsMalformedUnhandled(lo) ==
    IF lo.kind = "ok"
      THEN [failure_prob |-> lo.failure_prob, rul |-> lo.rul]
      ELSE IF lo.kind = "malformed"
        THEN [failure_prob |-> 0, rul |-> 0]
        ELSE [failure_prob |-> FallbackFailureProb, rul |-> FallbackRul]
LstmSignals(lo) ==
    IF lo.kind = "ok"
      THEN [failure_prob |-> lo.failure_prob, rul |-> lo.rul]
      ELSE [failure_prob |-> FallbackFailureProb, rul |-> FallbackRul]
AnomalyScore(ao) ==
    IF ao.kind = "ok" THEN ao.anomaly_score ELSE FallbackAnomaly

\* ------------------------------------------------------------ feature vectors
\* A feature value is a fixed-point number in units of 1/10000; a component
\* score and overall_health are held in tenths, the unit they are rounded to.
FeatureNames ==
    <<"State of Charge", "State of Health", "Battery Voltage",
      "Battery Current", "Battery Temperature", "Motor Temperature",
      "Motor Vibration", "Motor RPM", "Brake Pad Wear", "Power Stress",
      "Usage Intensity", "Health Trend">>

\* [0.8, 0.9, 360, -25, 32, 65, 0.6, 2200, 0.25, 8, 45, 0.85]
SampleFeatures ==
    <<8000, 9000, 3600000, -250000, 320000, 650000, 6000, 22000000, 2500,
      80000, 450000, 8500>>

\* The sample cut or padded to n values.
FeatureVector(n) ==
    [i \in 1..n |-> IF i <= Len(SampleFeatures) THEN SampleFeatures[i] ELSE 0]

\* The vectors predict is called with while the signals are explored.
PredFeatureVectors == {FeatureVector(n) : n \in FeatureLengths}

\* The sample with one value replaced, around every score threshold and
\* beyond the ranges the score formulas divide by.
FeatureVariations ==
    {<<1, 0>>, <<1, 1000>>, <<1, 6999>>, <<1, 7000>>, <<1, 10000>>,
     <<1, 15000>>,
     <<5, 0>>, <<5, 700000>>, <<5, 900000>>, <<5, 2000000>>,
     <<6, 1100000>>, <<6, 1500000>>,
     <<7, 0>>, <<7, 30000>>, <<7, 50000>>,
     <<8, 0>>, <<8, 60000000>>, <<8, 120000000>>,
     <<9, 0>>, <<9, 2000>>, <<9, 2001>>, <<9, 5000>>, <<9, 5001>>,
     <<9, 10000>>, <<9, 12000>>, <<9, -2000>>,
     <<11, 0>>, <<11, 200000>>, <<11, 200400>>, <<11, 200500>>,
     <<11, 200600>>, <<11, 500000>>, <<11, 1000000>>, <<11, 1500000>>,
     <<3, 22000000>>, <<3, -22000000>>, <<11, 650000>>, <<4, -650000>>,
     <<4, -50000000>>, <<10, 12345>>, <<12, 10000>>,
     <<3, 3600005>>, <<3, -3600015>>}
VariedFeatures == {[SampleFeatures EXCEPT ![v[1]] = v[2]] : v \in FeatureVariations}
SpecialFeatures ==
    {[i \in 1..12 |-> IF i <= 4 THEN 10000 ELSE 0],
     [i \in 1..12 |-> IF i \in {2, 7} THEN -i * 1000 ELSE i * 1000],
     <<10000, 10000, 0, 0, 0, 0, 0, 60000000, 0, 0, 0, 10000>>,
     <<0, 0, 0, 0, 700000, 1100000, 30000, 0, 10000, 0, 1000000, 0>>}
HealthFeatureVectors ==
    VariedFeatures \cup SpecialFeatures \cup {FeatureVector(11), FeatureVector(13)}

\* The collaborator answers the feature vectors are explored with.
HealthLstmOutcomes ==
    {[kind |-> "ok", failure_prob |-> 70000, rul |-> 6004], [kind |-> "raise"]}
HealthAutoencoderOutcomes ==
    {[kind |-> "ok", anomaly_score |-> 50004], [kind |-> "raise"]}

Abs(x) == IF x < 0 THEN -x ELSE x

\* round(): the integer nearest to num / den (den > 0), halves to even.
RoundRat(num, den) ==
    LET q == num \div den
        r == num % den
    IN  IF 2 * r < den THEN q
        ELSE IF 2 * r > den THEN q + 1
        ELSE IF q % 2 = 0 THEN q ELSE q + 1

\* _calculate_overall_health, rounded as predict reports it:
\* (soc * 0.25 + soh * 0.35 + health_trend * 0.40) * 100.
OverallHealth(f) == RoundRat(25 * f[1] + 35 * f[2] + 40 * f[12], 1000)

\* _calculate_component_health, the five scores, each round(..., 1).
\* mean([f0, f1]) * 100
BatteryScore(f) == RoundRat(f[1] + f[2], 20)
\* mean([1 - f4/70, 1 - f5/110]) * 100, i.e. 100 - 50*f4/70 - 50*f5/110
ThermalScoreSignSlip(f) == RoundRat(15400000 + 11 * f[5] - 7 * f[6], 15400)
ThermalScore(f) == RoundRat(15400000 - 11 * f[5] - 7 * f[6], 15400)
\* mean([1 - f6/3, f7/6000]) * 100, i.e. 50 - 50*f6/3 + 50*f7/6000
MotorScore(f) == RoundRat(60000000 - 2000 * f[7] + f[8], 120000)
\* (1 - f8) * 100
BrakingScore(f) == RoundRat(10000 - f[9], 10)
\* (1 - f10/100) * 100
UsageScore(f) == RoundRat(1000000 - f[11], 1000)

ComponentNames ==
    {"Battery System", "Thermal System", "Motor System", "Braking System",
     "Usage Stress"}

HealthyScore == 800       \* score >= 80
DegradingScore == 500     \* score >= 50

\* The status assigned to a score.
ComponentStatusStrict(score) ==
    IF score > HealthyScore THEN "healthy"
    ELSE IF score > DegradingScore THEN "degrading"
    ELSE "critical"
ComponentStatus(score) ==
    IF score >= HealthyScore THEN "healthy"
    ELSE IF score >= DegradingScore THEN "degrading"
    ELSE "critical"

ComponentScore(name, f) ==
    CASE name = "Battery System" -> BatteryScore(f)
      [] name = "Thermal System" -> ThermalScore(f)
      [] name = "Motor System" -> MotorScore(f)
      [] name = "Braking System" -> BrakingScore(f)
      [] name = "Usage Stress" -> UsageScore(f)

CalculateComponentHealth(f) ==
    [name \in ComponentNames |->
        [score |-> ComponentScore(name, f),
         status |-> ComponentStatus(ComponentScore(name, f))]]

\* np.argsort(importance)[-3:][::-1].  argsort's default kind is not a stable
\* sort, so the order among equal importances is whatever the build's sort
\* leaves: every triple of distinct indices in descending order of importance
\* that leaves no larger importance out is a possible value.
Importance(f, i) == Abs(f[i])
ThirdLargest(f) ==
    CHOOSE v \in {Importance(f, i) : i \in 1..Len(f)} :
        /\ Cardinality({i \in 1..Len(f) : Importance(f, i) > v}) <= 2
        /\ Cardinality({i \in 1..Len(f) : Importance(f, i) >= v}) >= 3
TopCandidates(f) == {i \in 1..Len(f) : Importance(f, i) >= ThirdLargest(f)}
TopIndicesAscending(f) ==
    LET c == TopCandidates(f)
    IN  {t \in c \X c \X c :
            /\ t[1] # t[2] /\ t[1] # t[3] /\ t[2] # t[3]
            /\ Importance(f, t[1]) <= Importance(f, t[2])
            /\ Importance(f, t[2]) <= Importance(f, t[3])
            /\ \A m \in c \ {t[1], t[2], t[3]} :
                   Importance(f, m) <= Importance(f, t[1])}
TopIndices(f) ==
    LET c == TopCandidates(f)
    IN  {t \in c \X c \X c :
            /\ t[1] # t[2] /\ t[1] # t[3] /\ t[2] # t[3]
            /\ Importance(f, t[1]) >= Importance(f, t[2])
            /\ Importance(f, t[2]) >= Importance(f, t[3])
            /\ \A m \in c \ {t[1], t[2], t[3]} :
                   Importance(f, m) <= Importance(f, t[3])}

\* _get_degradation_contributors for the indices chosen; value and
\* importance are rounded to 3 decimals (thousandths).
Contributor(f, idx) ==
    [feature |-> FeatureNames[idx],
     value |-> Round10(f[idx]),
     importance |-> Round10(Importance(f, idx))]
DegradationContributors(f, top) == [k \in 1..3 |-> Contributor(f, top[k])]

\* predict, the two raise statements.
RuntimeErrorResult(features) ==
    [status |-> "RuntimeError", features |-> features, invoked |-> {}]
ValueErrorResultSwapped(features) ==
    [status |-> "ValueError", features |-> features, invoked |-> {},
     expected |-> Len(features), got |-> NumFeatures]
ValueErrorResult(features) ==
    [status |-> "ValueError", features |-> features, invoked |-> {},
     expected |-> NumFeatures, got |-> Len(features)]

\* predict, from the inference calls to the returned dict.  The fields
\* features, inputs, invoked and raw keep what the call was given, which
\* collaborators it invoked and the unrounded signals the decisions were
\* taken on; the other fields are those of the returned dict.
Assessment(features, lo, ao, top) ==
    LET failure_prob == LstmSignals(lo).failure_prob
        rul == LstmSignals(lo).rul
        anomaly_score == AnomalyScore(ao)
    IN  [status |-> "ok",
         features |-> features,
         inputs |-> [lstm |-> lo, autoencoder |-> ao],
         invoked |-> {"lstm", "autoencoder"},
         raw |-> [failure_prob |-> failure_prob, rul |-> rul,
                  anomaly_score |-> anomaly_score],
         kpis |-> [failure_probability |-> Round10(failure_prob),
                   remaining_useful_life |-> Round10(rul),
                   anomaly_score |-> Round10(anomaly_score),
                   overall_health |-> OverallHealth(features)],
         component_health |-> CalculateComponentHealth(features),
         degradation_contributors |-> DegradationContributors(features, top),
         maintenance_decision |-> GetMaintenanceDecision(failure_prob, rul),
         should_alert |-> ShouldTriggerAlert(failure_prob, rul, anomaly_score),
         alert_severity |-> GetAlertSeverity(failure_prob, rul)]

\* predict(features), the sequence model answering lo, the reconstruction
\* model answering ao and argsort ordering the top indices as top.
PredictResultPropagates(features, lo, ao, top) ==
    IF ~lstm_model \/ ~autoencoder_model THEN RuntimeErrorResult(features)
    ELSE IF Len(features) # NumFeatures THEN ValueErrorResult(features)
    ELSE IF lo.kind = "raise"
      THEN [status |-> "Exception", features |-> features,
            invoked |-> {"lstm"}]
    ELSE Assessment(features, lo, ao, top)
PredictResult(features, lo, ao, top) ==
    IF ~lstm_model \/ ~autoencoder_model THEN RuntimeErrorResult(features)
    ELSE IF Len(features) # NumFeatures THEN ValueErrorResult(features)
    ELSE Assessment(features, lo, ao, top)

\* The orders argsort can leave the top indices in; predict does not reach
\* argsort for a vector of the wrong length.
ArgsortOutcomes(features) ==
    IF Len(features) = NumFeatures THEN TopIndices(features) ELSE {<<1, 2, 3>>}

Predict(features, lo, ao, top) ==
    /\ presult' = PredictResult(features, lo, ao, top)
    /\ UNCHANGED <<lstm_model, autoencoder_model>>

\* The application constructed with every service configured; predict reads
\* none of the alert service's state.
InitConfigured == Init /\ client /\ rate_limit_seconds = 1

\* predict under every answer of the collaborators.
NextPred ==
    \/ LoadModels /\ UNCHANGED <<gateVars, locVars, msgVars>>
    \/ \E f \in PredFeatureVectors : \E top \in ArgsortOutcomes(f) :
         \E lo \in LstmOutcomes, ao \in AutoencoderOutcomes :
           Predict(f, lo, ao, top) /\ UNCHANGED <<gateVars, locVars, msgVars>>

SpecPred == InitConfigured /\ [][NextPred]_vars

\* predict under every feature vector.
NextHealth ==
    \/ LoadModels /\ UNCHANGED <<gateVars, locVars, msgVars>>
    \/ \E f \in HealthFeatureVectors : \E top \in ArgsortOutcomes(f) :
         \E lo \in HealthLstmOutcomes, ao \in HealthAutoencoderOutcomes :
           Predict(f, lo, ao, top) /\ UNCHANGED <<gateVars, locVars, msgVars>>

SpecHealth == InitConfigured /\ [][NextHealth]_vars

\* ------------------------------------------------------------ LocationService
\* Coordinates are in units of 1/10000 degree, distances returned by
\* _calculate_distance in metres, distance_km in hundredths of a kilometre,
\* ratings in tenths.
MaxPlaces == 3
MaxResults == 3

\* (40.7128, -74.0060) and (48.1770, 11.5560)
UserPoints == {<<407128, -740060>>, <<481770, 115560>>}
Radii == {5000, 10000}

\* The places the provider knows, as offsets from the query point; p5 comes
\* without a geometry.
PlaceIds == {"p1", "p2", "p3", "p5"}
PlaceOffset(id) ==
    CASE id = "p1" -> <<50, 50>>
      [] id = "p2" -> <<200, -100>>
      [] id = "p3" -> <<199, -104>>
      [] id = "p5" -> <<0, 0>>

\* A place dict of places_nearby's 'results' for a query at (latitude,
\* longitude).
PlaceName(id) ==
    CASE id = "p1" -> "BMW Service One"
      [] id = "p2" -> "BMW Service Two"
      [] id = "p3" -> "BMW Service Three"
      [] id = "p5" -> "BMW Service Five"
ProviderPlace(id, latitude, longitude) ==
    [place_id |-> id,
     name |-> PlaceName(id),
     geometry |-> IF id = "p5" THEN << >>
                  ELSE <<latitude + PlaceOffset(id)[1],
                         longitude + PlaceOffset(id)[2]>>,
     rating |-> 40,
     user_ratings_total |-> 10,
     open_now |-> TRUE]

\* What places_nearby does: it raises, or returns up to MaxPlaces places in
\* the provider's own order.
ProviderOutcomes ==
    {[kind |-> "raise"]} \cup
    {[kind |-> "ok", results |-> ids] :
        ids \in {s \in UNION {[1..n -> PlaceIds] : n \in 0..MaxPlaces} :
                    \A i, j \in DOMAIN s : i # j => s[i] # s[j]}}
NotCalled == [kind |-> "not_called"]

\* _calculate_distance: the haversine distance with r = 6371, in metres,
\* tabulated from the formula for the points of the model.
CalculateDistance(lat1, lon1, lat2, lon2) ==
    CASE <<lat1, lon1, lat2 - lat1, lon2 - lon1>> = <<407128, -740060, 50, 50>> -> 698
      [] <<lat1, lon1, lat2 - lat1, lon2 - lon1>> = <<407128, -740060, 200, -100>> -> 2378
      [] <<lat1, lon1, lat2 - lat1, lon2 - lon1>> = <<407128, -740060, 199, -104>> -> 2380
      [] <<lat1, lon1, lat2 - lat1, lon2 - lon1>> = <<481770, 115560, 50, 50>> -> 668
      [] <<lat1, lon1, lat2 - lat1, lon2 - lon1>> = <<481770, 115560, 200, -100>> -> 2344
      [] <<lat1, lon1, lat2 - lat1, lon2 - lon1>> = <<481770, 115560, 199, -104>> -> 2343

\* _parse_place_result, for a place that has a geometry.
ParsePlaceResult(place, user_lat, user_lng) ==
    [id |-> place.place_id,
     name |-> place.name,
     latitude |-> place.geometry[1],
     longitude |-> place.geometry[2],
     distance_km |-> Round10(CalculateDistance(user_lat, user_lng,
                                               place.geometry[1],
                                               place.geometry[2])),
     rating |-> place.rating,
     total_ratings |-> place.user_ratings_total,
     is_open |-> place.open_now]

\* _get_mock_service_centers
GetMockServiceCentersSignSlip(latitude, longitude) ==
    <<[id |-> "mock_1", name |-> "BMW Service Center - Downtown",
       latitude |-> latitude + 100,
       longitude |-> longitude + 100, distance_km |-> 120, rating |-> 45,
       total_ratings |-> 234, is_open |-> TRUE],
      [id |-> "mock_2", name |-> "BMW Premium Service Hub",
       latitude |-> latitude + 200,
       longitude |-> longitude - 100, distance_km |-> 250, rating |-> 47,
       total_ratings |-> 412, is_open |-> TRUE],
      [id |-> "mock_3", name |-> "BMW Authorized Service",
       latitude |-> latitude + 300,
       longitude |-> longitude + 200, distance_km |-> 480, rating |-> 43,
       total_ratings |-> 189, is_open |-> FALSE],
      [id |-> "mock_4", name |-> "BMW Express Service Station",
       latitude |-> latitude + 500,
       longitude |-> longitude + 300, distance_km |-> 630, rating |-> 46,
       total_ratings |-> 321, is_open |-> TRUE]>>
GetMockServiceCenters(latitude, longitude) ==
    <<[id |-> "mock_1", name |-> "BMW Service Center - Downtown",
       latitude |-> latitude + 100,
       longitude |-> longitude + 100, distance_km |-> 120, rating |-> 45,
       total_ratings |-> 234, is_open |-> TRUE],
      [id |-> "mock_2", name |-> "BMW Premium Service Hub",
       latitude |-> latitude + 200,
       longitude |-> longitude - 100, distance_km |-> 250, rating |-> 47,
       total_ratings |-> 412, is_open |-> TRUE],
      [id |-> "mock_3", name |-> "BMW Authorized Service",
       latitude |-> latitude - 300,
       longitude |-> longitude + 200, distance_km |-> 480, rating |-> 43,
       total_ratings |-> 189, is_open |-> FALSE],
      [id |-> "mock_4", name |-> "BMW Express Service Station",
       latitude |-> latitude + 500,
       longitude |-> longitude + 300, distance_km |-> 630, rating |-> 46,
       total_ratings |-> 321, is_open |-> TRUE]>>

\* list.sort(key=lambda x: x['distance_km']): a stable ascending sort.
RECURSIVE InsertByDistance(_, _)
InsertByDistance(c, sorted) ==
    IF sorted = << >> THEN <<c>>
    ELSE IF c.distance_km < Head(sorted).distance_km THEN <<c>> \o sorted
    ELSE <<Head(sorted)>> \o InsertByDistance(c, Tail(sorted))
RECURSIVE SortByDistance(_)
SortByDistance(s) ==
    IF s = << >> THEN << >>
    ELSE InsertByDistance(s[Len(s)], SortByDistance(SubSeq(s, 1, Len(s) - 1)))

\* results[:max_results] for max_results >= 0
Truncate(s, max_results) ==
    SubSeq(s, 1, IF max_results < Len(s) THEN max_results ELSE Len(s))

\* The try block of get_nearby_service_centers once places_nearby has
\* answered: the first max_results places are parsed, then sorted; a place
\* without geometry among them raises KeyError, caught by the except.
RankServiceCenters(results, latitude, longitude, max_results) ==
    LET places == [i \in DOMAIN results |->
                      ProviderPlace(results[i], latitude, longitude)]
        taken == Truncate(places, max_results)
    IN  IF \E i \in DOMAIN taken : taken[i].geometry = << >>
          THEN [source |-> "mock",
                centers |-> GetMockServiceCenters(latitude, longitude)]
          ELSE [source |-> "provider",
                centers |-> SortByDistance(
                    [i \in DOMAIN taken |->
                        ParsePlaceResult(taken[i], latitude, longitude)])]

\* get_nearby_service_centers(latitude, longitude, radius, max_results), the
\* provider answering po when it is called.
GetNearbyServiceCenters(latitude, longitude, radius, max_results, po) ==
    LET answer ==
            IF ~loc_client \/ po.kind = "raise"
              THEN [source |-> "mock",
                    centers |-> GetMockServiceCenters(latitude, longitude)]
              ELSE RankServiceCenters(po.results, latitude, longitude,
                                      max_results)
    IN  /\ lresult' = [status |-> "ok",
                       query |-> [latitude |-> latitude,
                                  longitude |-> longitude,
                                  radius |-> radius,
                                  max_results |-> max_results],
                       provider |-> IF loc_client THEN po ELSE NotCalled,
                       source |-> answer.source,
                       centers |-> answer.centers]
        /\ UNCHANGED loc_client

\* The location service under both of its configurations.
InitLocation == InitAll /\ client /\ rate_limit_seconds = 1

NextLoc ==
    \E u \in UserPoints, radius \in Radii, max_results \in 0..MaxResults,
       po \in ProviderOutcomes :
        /\ GetNearbyServiceCenters(u[1], u[2], radius, max_results, po)
        /\ UNCHANGED <<gateVars, predVars, msgVars>>

SpecLoc == InitLocation /\ [][NextLoc]_vars

\* ---------------------------------------------------------- _compose_message
\* The body is held line by line, each line a pair of its label and what is
\* printed after it: Text(s) for a string, Number(n) for a formatted number.
\* failure_prob is a percentage in hundredths, printed with one decimal (in
\* tenths); rul is in tenths of a cycle, printed with no decimal.
Text(s) == <<"text", s>>
Number(n) == <<"number", n>>

Severities == {"critical", "warning", "normal", "info"}
FailurePercents == {7546, 1204}
RulCycles == {254}

\* nearest_center is None: no dict at all, which is falsy like the empty dict.
NoCenter == << >>
\* A dict a client of the route writes by hand, with the keys the message
\* reads.
HandMadeCenter == [name |-> "BMW Workshop", distance |-> 310]
HandMadeNameless == [distance |-> 310]

\* The emoji chosen by severity.
Emoji(severity) ==
    CASE severity = "critical" -> "rotating light"
      [] severity = "warning" -> "warning sign"
      [] OTHER -> "information"

SeverityLines(severity) ==
    IF severity = "critical"
      THEN <<<<"severity", Text("CRITICAL: Immediate maintenance required!")>>>>
    ELSE IF severity = "warning"
      THEN <<<<"severity", Text("WARNING: Schedule maintenance soon.")>>>>
    ELSE << >>

\* The service-center block: nearest_center.get('name', 'N/A') and
\* nearest_center.get('distance', 'N/A').
CenterLines(nearest_center) ==
    IF DOMAIN nearest_center # {}
      THEN <<<<"center", Text("Nearest Service Center:")>>,
             <<"name", IF "name" \in DOMAIN nearest_center
                         THEN Text(nearest_center.name) ELSE Text("N/A")>>,
             <<"Distance", IF "distance" \in DOMAIN nearest_center
                             THEN Number(nearest_center.distance)
                             ELSE Text("N/A")>>>>
      ELSE << >>

ComposeMessage(failure_prob, rul, severity, nearest_center) ==
    <<<<"header", Text(Emoji(severity))>>>>
    \o SeverityLines(severity)
    \o <<<<"metrics", Text("Health Metrics:")>>,
         <<"Failure Risk", Number(Round10(failure_prob))>>,
         <<"Remaining Life", Number(Round10(rul))>>>>
    \o CenterLines(nearest_center)
    \o <<<<"footer", Text("Open your dashboard for detailed analysis.")>>>>

\* The centers a caller has at hand: none, one written by hand, or one of
\* those the last get_nearby_service_centers call returned.
CentersAtHand ==
    {NoCenter, HandMadeCenter, HandMadeNameless}
        \cup (IF lresult.status = "ok"
                THEN {lresult.centers[i] : i \in DOMAIN lresult.centers}
                ELSE {})

\* send_alert composing the body of an alert it is about to deliver.
Compose(failure_prob, rul, severity, nearest_center) ==
    /\ mresult' = [status |-> "ok",
                   failure_prob |-> failure_prob,
                   rul |-> rul,
                   severity |-> severity,
                   nearest_center |-> nearest_center,
                   body |-> ComposeMessage(failure_prob, rul, severity,
                                           nearest_center)]
    /\ UNCHANGED <<gateVars, predVars, locVars>>

\* Alerts composed for centers the location service returned.
NextMsg ==
    \/ \E max_results \in {1, MaxResults}, po \in ProviderOutcomes :
         /\ GetNearbyServiceCenters(407128, -740060, 10000, max_results, po)
         /\ UNCHANGED <<gateVars, predVars, msgVars>>
    \/ \E failure_prob \in FailurePercents, rul \in RulCycles,
          severity \in Severities, nearest_center \in CentersAtHand :
         Compose(failure_prob, rul, severity, nearest_center)

SpecMsg == InitLocation /\ [][NextMsg]_vars

\* ------------------------------------------------------------------ claims
\* A recipient is COOLING when a send is recorded for it less than
\* rate_limit_seconds ago.
Recorded(r) == r \in DOMAIN last_alert_time
Cooling(r) == Recorded(r) /\ now - last_alert_time[r] < rate_limit_seconds

\* The thread leaves the rate-limit test in this step.
TakesRateTest(th) == pc[th] = "check" /\ pc'[th] # "check"

\* C1: a send whose rate-limit test finds the recipient COOLING (a send is
\* recorded for it at t and now - t < rate_limit_seconds) is turned away: it
\* returns success = false with the rate-limited reason, and the call never
\* hands a message to the delivery collaborator.
C1_CoolingIsRejected ==
    [][\A th \in Threads :
         /\ (TakesRateTest(th) /\ Cooling(to_phone[th])) => pc'[th] = "limited"
         /\ pc[th] = "limited" /\ pc'[th] # "limited" =>
              /\ pc'[th] = "done"
              /\ result'[th].kind = "rate_limited"
              /\ result'[th].success = FALSE
              /\ outcome'[th] = "none"
              /\ sent' = sent]_vars

C1_Witness ==
    \E th \in Threads :
        /\ pc[th] = "done"
        /\ result[th].kind = "rate_limited"
        /\ Cooling(to_phone[th])

\* C2: of two send calls for the same recipient at most one gets a message
\* accepted within one cooldown window: whenever the provider accepts a
\* message for a recipient, the previous accepted message for that recipient
\* (if any) is at least rate_limit_seconds old.
C2_OneDeliveryPerWindow ==
    [][\A th \in Threads :
         (pc[th] = "deliver" /\ outcome'[th] = "ok") =>
            \A t \in sent[to_phone[th]] : now - t >= rate_limit_seconds]_vars

C4_NotConfigured ==
    [][\A th \in Threads :
         (~client /\ pc[th] = "idle" /\ pc'[th] # "idle") =>
            /\ pc'[th] = "done"
            /\ result'[th].kind = "not_configured"
            /\ result'[th].success = FALSE
            /\ outcome'[th] = "none"
            /\ last_alert_time' = last_alert_time
            /\ sent' = sent]_vars

C4_Witness ==
    \E th \in Threads :
        /\ ~client
        /\ pc[th] = "done"
        /\ result[th].kind = "not_configured"

\* C5: with a configured client whose delivery succeeds, a send is turned
\* away as rate limited only for a recipient that has a send recorded (so the
\* first send to a fresh recipient succeeds); a successful send leaves the
\* recipient COOLING; a send to a COOLING recipient is turned away; and once
\* rate_limit_seconds have passed since the recorded send the next send is
\* attempted again.
C5_FirstSecondThird ==
    [][\A th \in Threads :
         /\ (pc'[th] = "done" /\ result'[th].kind = "rate_limited") =>
               Recorded(to_phone[th])
         /\ (pc[th] = "record" /\ pc'[th] = "done") =>
               /\ result'[th].success
               /\ Cooling(to_phone[th])'
         /\ (TakesRateTest(th) /\ Recorded(to_phone[th])) =>
               (pc'[th] = "limited" <=> Cooling(to_phone[th]))]_vars

\* C6: for a recipient with a send recorded at t, the rate-limit test lets a
\* send through exactly when now - t >= rate_limit_seconds (the boundary is
\* READY), and a COOLING recipient stops being COOLING only by the clock
\* advancing.
C6_ReadyByElapsedTime ==
    [][/\ \A th \in Threads :
            (TakesRateTest(th) /\ Recorded(to_phone[th])) =>
               (pc'[th] = "deliver" <=>
                  now - last_alert_time[to_phone[th]] >= rate_limit_seconds)
       /\ \A r \in Recipients :
            (Cooling(r) /\ ~Cooling(r)') =>
               (now' > now /\ last_alert_time' = last_alert_time)]_vars

C6_Witness ==
    \E th \in Threads :
        /\ pc[th] = "deliver"
        /\ Recorded(to_phone[th])
        /\ now - last_alert_time[to_phone[th]] = rate_limit_seconds

\* C7: a recipient for which no send has been recorded is READY: the
\* rate-limit test never turns away a send to it, whatever the clock value
\* and rate_limit_seconds.
C7_FreshIsReady ==
    \A th \in Threads : pc[th] = "limited" => Recorded(to_phone[th])

\* C8: a finished send reports success exactly when the delivery collaborator
\* returned a message, and then carries the identifier the provider assigned;
\* when delivery raised, the send returns success = false without an
\* identifier; success is never reported by a call that did not invoke
\* delivery.
C8_ResultFollowsDelivery ==
    \A th \in Threads :
        pc[th] = "done" =>
            /\ result[th].success <=> outcome[th] = "ok"
            /\ result[th].success =>
                   /\ result[th].sid = message[th]
                   /\ result[th].sid # NoSid
            /\ outcome[th] = "raised" =>
                   /\ result[th].kind = "delivery_error"
                   /\ result[th].sid = NoSid
            /\ outcome[th] = "none" =>
                   result[th].kind \in {"not_configured", "rate_limited"}

C8_Witness ==
    \E th \in Threads :
        /\ pc[th] = "done"
        /\ result[th].success
        /\ \E t \in sent[to_phone[th]] :
               result[th].sid = ProviderSid(to_phone[th], t)

\* The signals a finished assessment was computed from.
Assessed == presult.status = "ok"

\* C9: the maintenance level is immediate exactly when failure_prob >= 0.7
\* or rul <= 30, otherwise soon exactly when failure_prob >= 0.4 or
\* rul <= 60, otherwise normal (the four boundary values belong to the more
\* urgent level), and each level carries its fixed message, description and
\* colour (immediate red, soon yellow, normal green).
C9_MaintenanceLadder ==
    Assessed =>
        LET fp == presult.raw.failure_prob
            rul == presult.raw.rul
            d == presult.maintenance_decision
            immediate == fp >= 70000 \/ rul <= 3000
            soon == ~immediate /\ (fp >= 40000 \/ rul <= 6000)
        IN  /\ d.level \in {"immediate", "soon", "normal"}
            /\ d.level = "immediate" <=> immediate
            /\ d.level = "soon" <=> soon
            /\ d.level = "normal" <=> (~immediate /\ ~soon)
            /\ d.level = "immediate" =>
                 /\ d.color = "red"
                 /\ d.message = "Immediate Maintenance Required"
            /\ d.level = "soon" =>
                 /\ d.color = "yellow"
                 /\ d.message = "Schedule Maintenance Soon"
            /\ d.level = "normal" =>
                 /\ d.color = "green"
                 /\ d.message = "Vehicle Operating Normally"

C9_Witness ==
    /\ Assessed
    /\ presult.raw.failure_prob = 40000
    /\ presult.raw.rul > 6000
    /\ presult.maintenance_decision.level = "soon"
    /\ presult.maintenance_decision.color = "yellow"

\* C10: should_alert is true exactly when failure_prob >= 0.7 or rul <= 30
\* or anomaly_score > 0.5 (the anomaly threshold alone is strict), evaluated
\* on the raw signals of the assessment and not on the rounded figures
\* reported in kpis.
C10_ShouldAlert ==
    Assessed =>
        (presult.should_alert <=>
            \/ presult.raw.failure_prob >= 70000
            \/ presult.raw.rul <= 3000
            \/ presult.raw.anomaly_score > 50000)

C10_Witness ==
    /\ Assessed
    /\ presult.raw.anomaly_score = 50000
    /\ presult.raw.failure_prob = 69996
    /\ presult.kpis.failure_probability = 7000
    /\ presult.raw.rul = 3004
    /\ presult.kpis.remaining_useful_life = 300
    /\ ~presult.should_alert

\* C11: alert_severity follows the same two-threshold ladder as the
\* maintenance decision: in every assessment it is critical exactly when the
\* level is immediate, warning exactly when the level is soon, and normal
\* exactly when the level is normal.
C11_SeverityMatchesLevel ==
    Assessed =>
        LET sev == presult.alert_severity
            level == presult.maintenance_decision.level
        IN  /\ sev \in {"critical", "warning", "normal"}
            /\ sev = "critical" <=> level = "immediate"
            /\ sev = "warning" <=> level = "soon"
            /\ sev = "normal" <=> level = "normal"

C11_Witness ==
    /\ Assessed
    /\ presult.raw.failure_prob = 40000
    /\ presult.raw.rul = 6004
    /\ presult.alert_severity = "warning"
    /\ presult.maintenance_decision.level = "soon"

\* C12: a critical severity always comes with should_alert; should_alert
\* together with a normal severity (and a normal maintenance level) happens
\* exactly when failure_prob < 0.4, rul > 60 and anomaly_score > 0.5; so
\* should_alert with a severity other than critical implies
\* anomaly_score > 0.5.
C12_AlertSeverityAsymmetry ==
    Assessed =>
        LET sev == presult.alert_severity
            fp == presult.raw.failure_prob
            rul == presult.raw.rul
            an == presult.raw.anomaly_score
        IN  /\ sev = "critical" => presult.should_alert
            /\ (presult.should_alert /\ sev = "normal") <=>
                   (fp < 40000 /\ rul > 6000 /\ an > 50000)
            /\ (presult.should_alert /\ sev = "normal") =>
                   presult.maintenance_decision.level = "normal"
            /\ (presult.should_alert /\ sev # "critical") => an > 50000

C12_Witness ==
    /\ Assessed
    /\ presult.should_alert
    /\ presult.alert_severity = "normal"
    /\ presult.maintenance_decision.level = "normal"
    /\ presult.raw.anomaly_score = 50004

\* ------------------------------------------- claims on predict's error paths
\* A call of predict has returned or raised.
Called == presult.status # "none"
BothLoaded == lstm_model /\ autoencoder_model

Complete(r) ==
    /\ {"kpis", "component_health", "degradation_contributors",
        "maintenance_decision", "should_alert", "alert_severity"}
           \subseteq DOMAIN r
    /\ DOMAIN r.kpis = {"failure_probability", "remaining_useful_life",
                        "anomaly_score", "overall_health"}
    /\ \A k \in DOMAIN r.kpis : r.kpis[k] \in Int
    /\ DOMAIN r.component_health = ComponentNames
    /\ \A c \in ComponentNames :
          /\ r.component_health[c].score \in Int
          /\ r.component_health[c].status \in {"healthy", "degrading", "critical"}
    /\ Len(r.degradation_contributors) = 3
    /\ r.maintenance_decision.level \in {"immediate", "soon", "normal"}
    /\ r.should_alert \in BOOLEAN
    /\ r.alert_severity \in {"critical", "warning", "normal"}

C15_IndependentFallbacks ==
    Assessed =>
        LET lo == presult.inputs.lstm
            ao == presult.inputs.autoencoder
            used == presult.raw
        IN  /\ lo.kind = "ok" =>
                  used.failure_prob = lo.failure_prob /\ used.rul = lo.rul
            /\ lo.kind # "ok" =>
                  used.failure_prob = 30000 /\ used.rul = 10000
            /\ ao.kind = "ok" => used.anomaly_score = ao.anomaly_score
            /\ ao.kind # "ok" => used.anomaly_score = 1000
            /\ presult.maintenance_decision =
                  GetMaintenanceDecision(used.failure_prob, used.rul)
            /\ presult.should_alert =
                  ShouldTriggerAlert(used.failure_prob, used.rul,
                                     used.anomaly_score)
            /\ presult.alert_severity =
                  GetAlertSeverity(used.failure_prob, used.rul)
            /\ presult.kpis.failure_probability = Round10(used.failure_prob)
            /\ presult.kpis.remaining_useful_life = Round10(used.rul)
            /\ presult.kpis.anomaly_score = Round10(used.anomaly_score)

C15_Witness ==
    /\ Assessed
    /\ presult.inputs.lstm.kind = "malformed"
    /\ presult.inputs.autoencoder.kind = "ok"
    /\ presult.raw.anomaly_score = 50004
    /\ presult.raw.failure_prob = 30000
    /\ presult.should_alert
    /\ presult.maintenance_decision.level = "normal"

\* -------------------------------------------- claims on the health scores
\* C16: each of the five component entries has exactly one status, fixed by
\* its reported score: healthy iff score >= 80, degrading iff
\* 50 <= score < 80, critical iff score < 50.
C16_StatusByReportedScore ==
    Assessed =>
        \A c \in ComponentNames :
            LET e == presult.component_health[c]
            IN  /\ e.status \in {"healthy", "degrading", "critical"}
                /\ e.status = "healthy" <=> e.score >= 800
                /\ e.status = "degrading" <=> (500 <= e.score /\ e.score < 800)
                /\ e.status = "critical" <=> e.score < 500

C16_Witness ==
    /\ Assessed
    /\ presult.features[11] = 200500
    /\ presult.component_health["Usage Stress"].score = 800
    /\ presult.component_health["Usage Stress"].status = "healthy"
    /\ presult.component_health["Thermal System"].status = "critical"
    /\ presult.component_health["Motor System"].status = "degrading"

\* C17 as stated: every component score lies in 0..100 for every 12-element
\* vector, values beyond the expected ranges included.
C17_ScoreWithin0To100 ==
    Assessed =>
        \A c \in ComponentNames :
            /\ 0 <= presult.component_health[c].score
            /\ presult.component_health[c].score <= 1000

\* The ranges the score formulas normalise by: soc, soh and brake wear in
\* 0..1, battery temperature 0..70, motor temperature 0..110, vibration
\* 0..3, rpm 0..6000, usage intensity 0..100.
InExpectedRange(f) ==
    /\ \A i \in {1, 2, 9} : 0 <= f[i] /\ f[i] <= 10000
    /\ 0 <= f[5] /\ f[5] <= 700000
    /\ 0 <= f[6] /\ f[6] <= 1100000
    /\ 0 <= f[7] /\ f[7] <= 30000
    /\ 0 <= f[8] /\ f[8] <= 60000000
    /\ 0 <= f[11] /\ f[11] <= 1000000

\* C17 amended: every component score lies in 0..100 for every 12-element
\* vector whose values are within the expected ranges (soc, soh, brake wear
\* 0..1, battery temperature 0..70, motor temperature 0..110, vibration
\* 0..3, rpm 0..6000, usage intensity 0..100); the scores are not clamped,
\* so beyond these ranges a score can be below 0 or above 100.
C17_ScoreWithinRangeWhenNormalized ==
    (Assessed /\ InExpectedRange(presult.features)) =>
        \A c \in ComponentNames :
            /\ 0 <= presult.component_health[c].score
            /\ presult.component_health[c].score <= 1000

C17_Witness ==
    /\ Assessed
    /\ InExpectedRange(presult.features)
    /\ presult.features[8] = 60000000
    /\ presult.component_health["Motor System"].score = 1000
    /\ presult.component_health["Braking System"].score = 1000

\* The index of the feature a contributor names.
IndexOf(name) == CHOOSE i \in 1..12 : FeatureNames[i] = name
Ranked(k) == IndexOf(presult.degradation_contributors[k].feature)

\* C18 as stated: the contributors are the 3 features of largest absolute
\* value in descending order, each with its name, raw value and importance
\* = abs(raw value); among equal absolute values the lower index is ranked
\* first and is the one kept at the cut-off.
C18_LowerIndexWinsTies ==
    Assessed =>
        LET f == presult.features
            Before(i, j) ==
                \/ Abs(f[i]) > Abs(f[j])
                \/ Abs(f[i]) = Abs(f[j]) /\ i < j
        IN  /\ Before(Ranked(1), Ranked(2))
            /\ Before(Ranked(2), Ranked(3))
            /\ \A m \in (1..12) \ {Ranked(1), Ranked(2), Ranked(3)} :
                   Before(Ranked(3), m)

\* C18 amended: the contributors are 3 distinct features, listed in
\* descending order of absolute value, none of the features left out
\* having a larger absolute value; each is reported with its name, its
\* value rounded to 3 decimals and importance = abs(value) rounded to 3
\* decimals; the order among features of equal absolute value, and which
\* of them is kept at the cut-off, is left to the sort and not determined.
\* A single entry of strictly largest magnitude is always ranked first.
C18_TopThreeDescending ==
    Assessed =>
        LET f == presult.features
            dc == presult.degradation_contributors
        IN  /\ Cardinality({Ranked(1), Ranked(2), Ranked(3)}) = 3
            /\ Abs(f[Ranked(1)]) >= Abs(f[Ranked(2)])
            /\ Abs(f[Ranked(2)]) >= Abs(f[Ranked(3)])
            /\ \A m \in (1..12) \ {Ranked(1), Ranked(2), Ranked(3)} :
                   Abs(f[m]) <= Abs(f[Ranked(3)])
            /\ \A k \in 1..3 :
                   /\ dc[k].value = Round10(f[Ranked(k)])
                   /\ dc[k].importance = Round10(Abs(f[Ranked(k)]))
            /\ \A i \in 1..12 :
                   (\A j \in (1..12) \ {i} : Abs(f[i]) > Abs(f[j]))
                       => Ranked(1) = i

C18_Witness ==
    /\ Assessed
    /\ presult.features[3] = -22000000
    /\ presult.features[8] = 22000000
    /\ presult.degradation_contributors[1].feature = "Motor RPM"
    /\ presult.degradation_contributors[2].feature = "Battery Voltage"
    /\ presult.degradation_contributors[2].value = -2200000
    /\ presult.degradation_contributors[2].importance = 2200000

\* --------------------------------------------- claims on the location service
Located == lresult.status = "ok"
Sorted(centers) ==
    \A i, j \in DOMAIN centers :
        i < j => centers[i].distance_km <= centers[j].distance_km

\* C19: when the provider answers, the result has at most max_results
\* entries, is sorted ascending by distance_km, and consists of the
\* max_results nearest of all candidates the provider returned: no returned
\* candidate that is left out is nearer than one that is kept.
C19_NearestOfAllReturned ==
    (Located /\ lresult.source = "provider") =>
        LET q == lresult.query
            kept == {lresult.centers[i].id : i \in DOMAIN lresult.centers}
            returned == {ProviderPlace(lresult.provider.results[i],
                                       q.latitude, q.longitude) :
                            i \in DOMAIN lresult.provider.results}
            leftOut == {p \in returned :
                           p.place_id \notin kept /\ p.geometry # << >>}
        IN  /\ Len(lresult.centers) <= q.max_results
            /\ Sorted(lresult.centers)
            /\ \A p \in leftOut : \A i \in DOMAIN lresult.centers :
                   ParsePlaceResult(p, q.latitude, q.longitude).distance_km
                       >= lresult.centers[i].distance_km

Composed == mresult.status = "ok"
Lines(label) ==
    {mresult.body[i][2] : i \in {j \in DOMAIN mresult.body :
                                    mresult.body[j][1] = label}}

\* C21: severity critical adds the immediate-maintenance line, warning the
\* schedule-soon line, any other severity neither; the failure-risk and
\* remaining-life lines are always present; whenever a center is supplied,
\* in particular one returned by get_nearby_service_centers, the body
\* contains that center's name and its distance value, and with no center
\* supplied the body has no service-center block.
C21_BodyFollowsSeverityAndCenter ==
    Composed =>
        LET c == mresult.nearest_center
        IN  /\ Lines("severity") =
                   (IF mresult.severity = "critical"
                      THEN {Text("CRITICAL: Immediate maintenance required!")}
                    ELSE IF mresult.severity = "warning"
                      THEN {Text("WARNING: Schedule maintenance soon.")}
                    ELSE {})
            /\ Cardinality(Lines("Failure Risk")) = 1
            /\ Cardinality(Lines("Remaining Life")) = 1
            /\ DOMAIN c = {} =>
                   Lines("center") \cup Lines("name") \cup Lines("Distance") = {}
            /\ ("name" \in DOMAIN c) => Lines("name") = {Text(c.name)}
            /\ ("distance_km" \in DOMAIN c) =>
                   Lines("Distance") = {Number(c.distance_km)}
            /\ ("distance" \in DOMAIN c) =>
                   Lines("Distance") = {Number(c.distance)}

\* ------------------------------------------------ claims on the cooldown
\* The thread returns the rate-limited dict in this step.
Rejects(th) == pc[th] = "limited" /\ pc'[th] = "done"

\* C22: every rate-limited rejection of a recipient with a recorded send
\* carries a retry time that is strictly positive and at most
\* rate_limit_seconds, also when the clock advances between the rate-limit
\* test and the computation of the retry time.
C22_RetryTimePositive ==
    [][\A th \in Threads :
         (Rejects(th) /\ Recorded(to_phone[th])) =>
            /\ result'[th].kind = "rate_limited"
            /\ result'[th].retry > 0
            /\ result'[th].retry <= rate_limit_seconds]_vars

\* C23: a send that is rejected as rate limited leaves last_alert_time as it
\* was, so rejected attempts never extend or restart the cooldown: the only
\* step that changes last_alert_time is the recording of an accepted
\* delivery, and a send to a recipient with a send recorded at t whose
\* rate-limit test is made at or after t + rate_limit_seconds is let through.
C23_RejectionLeavesStateUnchanged ==
    [][/\ \A th \in Threads :
            (Rejects(th) \/ (TakesRateTest(th) /\ pc'[th] = "limited")) =>
                last_alert_time' = last_alert_time
       /\ last_alert_time' # last_alert_time =>
            \E th \in Threads :
                pc[th] = "record" /\ outcome[th] = "ok" /\ pc'[th] = "done"
       /\ \A th \in Threads :
            (/\ TakesRateTest(th)
             /\ Recorded(to_phone[th])
             /\ now >= last_alert_time[to_phone[th]] + rate_limit_seconds) =>
                pc'[th] = "deliver"]_vars

C23_Witness ==
    \E th \in Threads :
        /\ pc[th] = "done"
        /\ result[th].kind = "rate_limited"
        /\ Recorded(to_phone[th])
        /\ last_alert_time[to_phone[th]] < now
        /\ Cooling(to_phone[th])

\* C24: cooldowns are per recipient.  A send to one recipient never changes
\* the entry of another recipient in last_alert_time (neither its presence
\* nor its value), and whether a send is let through is decided by the
\* recipient's own entry (or its absence), the clock and rate_limit_seconds
\* alone.
C24_PerRecipient ==
    [][\A th \in Threads :
         /\ pc[th] # pc'[th] =>
              \A b \in Recipients \ {to_phone'[th], to_phone[th]} :
                 /\ Recorded(b)' <=> Recorded(b)
                 /\ Recorded(b) => last_alert_time'[b] = last_alert_time[b]
         /\ TakesRateTest(th) =>
              (pc'[th] = "deliver" <=>
                 now - Get(last_alert_time, to_phone[th], 0)
                     >= rate_limit_seconds)]_vars

C24_Witness ==
    \E th \in Threads :
        /\ pc[th] = "deliver"
        /\ to_phone[th] = "B"
        /\ ~Recorded("B")
        /\ Cooling("A")

\* C25: with a non-decreasing clock and requests served one at a time, an
\* entry of last_alert_time, once written, is never removed and never
\* decreases; an entry is written only for the recipient of a send whose
\* message the delivery step accepted; and a new timestamp of a recipient is
\* at least rate_limit_seconds after the previous one.
C25_TimestampsMonotone ==
    [][\A r \in Recipients :
         /\ Recorded(r) =>
              /\ Recorded(r)'
              /\ last_alert_time'[r] >= last_alert_time[r]
              /\ last_alert_time'[r] # last_alert_time[r] =>
                    last_alert_time'[r] - last_alert_time[r]
                        >= rate_limit_seconds
         /\ (~Recorded(r) /\ Recorded(r)') =>
              \E th \in Threads :
                  /\ to_phone[th] = r
                  /\ pc[th] = "record"
                  /\ outcome[th] = "ok"
                  /\ sent[r] # {}]_vars

C25_Witness ==
    \E th \in Threads :
        /\ pc[th] = "record"
        /\ Recorded(to_phone[th])
        /\ now - last_alert_time[to_phone[th]] > rate_limit_seconds
        /\ rate_limit_seconds > 1

====
